---- MODULE Spec2Model ----
(***************************************************************************)
(* The resilient cart mutation layer of the storefront: useSafeCart        *)
(* (hooks/use-safe-cart), the cart-service helpers it calls, and the       *)
(* SafeCartProvider operations built on it.                                *)
(*                                                                         *)
(* Every asynchronous function is cut at its timer waits                   *)
(* (waitForMutationComplete); the code between two waits is one action.    *)
(* The Hydrogen cart (useCart) is the gateway: a black box that takes one  *)
(* request at a time, finishes it later, and may apply it, ignore it,      *)
(* answer with userErrors, or throw when called.  Reads of cart.* return   *)
(* the gateway's state at the time of the read.                            *)
(*                                                                         *)
(* The hook has two users: the SafeCartProvider, which always sets         *)
(* autoRecover: true, and code that calls safeAddLines, safeUpdateLines    *)
(* and safeRemoveLines on a hook of its own with autoRecover: false.       *)
(* Both may call forceCreateNewCart.  addMultipleToCart makes up to two    *)
(* calls of the hook, one after the other; the records of a slot (log,     *)
(* origErrors, callbacks) are those of its latest call of the hook.        *)
(***************************************************************************)
EXTENDS Integers, Sequences, FiniteSets, TLC

\* ------------------------------------------------------------------ bounds
MaxCalls == 2
MaxQty == 2
MaxUserErrors == 2
MaxFaults == 1

Calls == {1, 2}
\* the quantities callers ask for: none, one, many
Quantities == {0, 1, MaxQty}
\* what addMultipleToCart is given: nothing, one item, two items
ItemLists ==
  {<<>>,
   <<[merchandiseId |-> "gid://variant/1", quantity |-> 1]>>,
   <<[merchandiseId |-> "gid://variant/1", quantity |-> 1],
     [merchandiseId |-> "gid://variant/2", quantity |-> 1]>>}
\* how many userErrors a rejected request carries: one, or many
UserErrorCounts == {1, MaxUserErrors}
Merch == {"gid://variant/1", "gid://variant/2"}
NoMerch == ""
\* the empty line id
NoLineId == [cart |-> 0, n |-> 0]
Contexts == {<<"US", "EN">>, <<"CA", "FR">>}

None == [none |-> TRUE]
Thrown == [thrown |-> TRUE]

VARIABLES
  gw,                  \* the Hydrogen cart: status, id, lines, updatedAt, userErrors
  pending,             \* the request the gateway is working on, or None
  clock,               \* source of updatedAt / createdAt stamps
  nextCart,            \* next cart id the remote service hands out
  nextLine,            \* next line number the remote service hands out in this cart
  stored,              \* localStorage[CART_CONTEXT_KEY]: a CartContext or None
  countryCode,         \* options.countryCode
  languageCode,        \* options.languageCode
  autoRecover,         \* options.autoRecover
  mutationInProgressRef,
  preOpCartStateRef,
  isRecovering,
  lastErrors,
  pc,                  \* per call: where the call is suspended
  op,                  \* per call: the orchestrated mutation (type, payload, expected)
  ui,                  \* per call: the caller-facing operation that issued it
  origErrors,          \* per call: performRecovery's originalErrors
  newCartIdOf,         \* per call: performRecovery's newCartId
  result,              \* per call: what the caller received
  log,                 \* per call: the gateway requests it made and how each ended
  callbacks,           \* per call: onRecovery / onRecoveryFailed invocations
  faultsLeft,          \* how often the gateway may still misbehave
  started              \* how many caller-facing operations have been issued

vars == <<gw, pending, clock, nextCart, nextLine, stored, countryCode, languageCode,
          autoRecover, mutationInProgressRef, preOpCartStateRef, isRecovering,
          lastErrors, pc, op, ui, origErrors, newCartIdOf, result, log, callbacks,
          faultsLeft, started>>

\* ------------------------------------------------------------ pure helpers
RECURSIVE SumQty(_)
SumQty(s) == IF s = <<>> THEN 0 ELSE Head(s).quantity + SumQty(Tail(s))

Range(s) == {s[i] : i \in DOMAIN s}

\* CartMutationError; detail holds the message's interpolated parts, ref a cart id.
\* An absent field or originalError is None.
Err(code, message, detail, ref) ==
  [code |-> code, message |-> message, field |-> None, originalError |-> None,
   detail |-> detail, ref |-> ref]

Messages(errors) == [i \in DOMAIN errors |-> errors[i].message]

\* Array.prototype.join('.')
RECURSIVE Join(_)
Join(path) ==
  IF path = <<>> THEN ""
  ELSE IF Len(path) = 1 THEN path[1]
  ELSE path[1] \o "." \o Join(Tail(path))

\* an extraction that keeps the first error only
extractUserErrors_First(userErrors) ==
  IF userErrors = <<>> THEN <<>>
  ELSE <<[code |-> "USER_ERROR", message |-> userErrors[1].message,
          field |-> IF "field" \in DOMAIN userErrors[1]
                    THEN [text |-> Join(userErrors[1].field)] ELSE None,
          originalError |-> userErrors[1], detail |-> <<>>, ref |-> 0]>>

\* `err.field?.join('.')`: the dotted path, or nothing when the error has no field
extractUserErrors(userErrors) ==
  [i \in DOMAIN userErrors |->
     [code |-> "USER_ERROR", message |-> userErrors[i].message,
      field |-> IF "field" \in DOMAIN userErrors[i]
                THEN [text |-> Join(userErrors[i].field)] ELSE None,
      originalError |-> userErrors[i], detail |-> <<>>, ref |-> 0]]

createStaleCartError(cartId) ==
  Err("STALE_CART", "Cart is stale or expired", <<>>, cartId)

createNoOpError ==
  Err("NO_OP_MUTATION", "Mutation was silently ignored by Shopify", <<>>, 0)

\* a mismatch error that names the current context only
createContextMismatchError_CurrentOnly(expected, current) ==
  Err("CONTEXT_MISMATCH", "Cart was created for another context",
      <<current[1], current[2]>>, 0)

createContextMismatchError(expected, current) ==
  Err("CONTEXT_MISMATCH", "Cart was created for another context",
      <<expected.countryCode, expected.languageCode, current[1], current[2]>>, 0)

createRecoveryFailedError(originalErrors) ==
  Err("RECOVERY_FAILED", "Failed to recover cart", Messages(originalErrors), 0)

UnknownError(message) == Err("UNKNOWN_ERROR", message, <<>>, 0)

buildSuccessResult(cart, wasRecovered, newCartId) ==
  [success |-> TRUE, cart |-> cart, errors |-> <<>>,
   wasRecovered |-> wasRecovered, newCartId |-> newCartId]

\* a failure that drops its errors
buildFailureResult_NoErrors(errors) ==
  [success |-> FALSE, cart |-> None, errors |-> <<>>,
   wasRecovered |-> FALSE, newCartId |-> 0]

buildFailureResult(errors) ==
  [success |-> FALSE, cart |-> None, errors |-> errors,
   wasRecovered |-> FALSE, newCartId |-> 0]

\* a validator that accepts every context
isContextMatch_Always(currentCountry, currentLanguage) == TRUE

\* a validator that compares the country only
isContextMatch_CountryOnly(currentCountry, currentLanguage) ==
  IF stored = None THEN TRUE
  ELSE stored.countryCode = currentCountry

isContextMatch(currentCountry, currentLanguage) ==
  IF stored = None THEN TRUE
  ELSE stored.countryCode = currentCountry /\ stored.languageCode = currentLanguage

\* a detector that holds an update to an expected change of quantity as well
detectNoOpMutation_UpdateByDelta(previousCart, currentCart, mutationType, expectedQuantityChange) ==
  IF previousCart = None \/ currentCart = None THEN FALSE
  ELSE /\ previousCart.updatedAt = currentCart.updatedAt
       /\ \/ mutationType # "update"
          \/ expectedQuantityChange = None
          \/ currentCart.totalQuantity - previousCart.totalQuantity
               # expectedQuantityChange.n

detectNoOpMutation(previousCart, currentCart, mutationType, expectedQuantityChange) ==
  IF previousCart = None \/ currentCart = None THEN FALSE
  ELSE LET timestampUnchanged == previousCart.updatedAt = currentCart.updatedAt
           addMismatch ==
             /\ mutationType = "add" /\ expectedQuantityChange # None
             /\ currentCart.totalQuantity - previousCart.totalQuantity
                  # expectedQuantityChange.n
           removeMismatch ==
             /\ mutationType = "remove" /\ expectedQuantityChange # None
             /\ previousCart.totalQuantity - currentCart.totalQuantity
                  # expectedQuantityChange.n
       IN IF timestampUnchanged /\ addMismatch THEN TRUE
          ELSE IF timestampUnchanged /\ removeMismatch THEN TRUE
          ELSE timestampUnchanged

\* ------------------------------------------------------- reads of the cart
Idle == gw.status \in {"idle", "uninitialized"}

TotalQuantity == SumQty(gw.lines)

CartSnapshot ==
  [id |-> gw.id, lines |-> gw.lines, updatedAt |-> gw.updatedAt,
   totalQuantity |-> TotalQuantity]

getCurrentCart == IF gw.status = "uninitialized" THEN None ELSE CartSnapshot

checkForUserErrors == gw.userErrors

capturePreOpState == [updatedAt |-> gw.updatedAt, totalQuantity |-> TotalQuantity]

\* a lookup that never finds the line
findExistingLine_Never(merchandiseId) == None

findExistingLine(merchandiseId) ==
  LET hits == SelectSeq(gw.lines, LAMBDA l : l.merchandise = merchandiseId)
  IN IF hits = <<>> THEN None ELSE [id |-> Head(hits).id, quantity |-> Head(hits).quantity]

LineIds == {gw.lines[i].id : i \in DOMAIN gw.lines}

\* Line ids a caller can hold for the current cart: those of its lines, and those
\* of lines it had earlier.
KnownLineIds == {[cart |-> gw.id, n |-> k] : k \in 1..(nextLine - 1)}

\* --------------------------------------------------------------- gateway
UserError(i) ==
  IF i % 2 = 1 THEN [message |-> "Invalid quantity", field |-> <<"lines", "0", "quantity">>]
  ELSE [message |-> "Merchandise unavailable"]

UserErrorList(n) == [i \in 1..n |-> UserError(i)]

CarriedIds(kind, payload) ==
  IF kind = "update" THEN {payload[i].id : i \in DOMAIN payload}
  ELSE IF kind = "remove" THEN Range(payload)
  ELSE {}

Entry(kind, payload, outcome) ==
  [kind |-> kind, outcome |-> outcome, cart |-> gw.id, made |-> 0, reported |-> 0,
   fresh |-> \A id \in CarriedIds(kind, payload) : id.cart = gw.id]

\* The records of a slot belong to one call of the hook: they start empty when the
\* slot is idle, when its last call has returned, and between the two calls that
\* addMultipleToCart makes.
Free(c) == pc[c] \in {"idle", "done", "updated"}

Keep(f, c, zero) == [f EXCEPT ![c] = IF Free(c) THEN zero ELSE @]

LogOf(c) == IF Free(c) THEN <<>> ELSE log[c]

\* cart.linesAdd / linesUpdate / linesRemove / cartCreate, called without throwing:
\* the gateway takes the request when it is idle and drops it when it is busy.
Send(c, kind, payload) ==
  /\ UNCHANGED faultsLeft
  /\ IF pending # None
     THEN /\ log' = [log EXCEPT ![c] = Append(LogOf(c), Entry(kind, payload, "dropped"))]
          /\ UNCHANGED <<gw, pending>>
     ELSE /\ log' = [log EXCEPT ![c] = Append(LogOf(c), Entry(kind, payload, "pending"))]
          /\ pending' = [call |-> c, kind |-> kind, payload |-> payload,
                         slot |-> Len(LogOf(c)) + 1]
          /\ gw' = [gw EXCEPT !.status = IF kind = "create" THEN "creating"
                                         ELSE "updating"]

\* the same call throwing instead
Throw(c, kind, payload) ==
  /\ faultsLeft > 0
  /\ faultsLeft' = faultsLeft - 1
  /\ log' = [log EXCEPT ![c] = Append(LogOf(c), Entry(kind, payload, "threw"))]
  /\ UNCHANGED <<gw, pending>>

RECURSIVE AddLines(_, _, _)
AddLines(lines, items, n) ==
  IF items = <<>> THEN lines
  ELSE LET it == Head(items)
           at == {i \in DOMAIN lines : lines[i].merchandise = it.merchandiseId}
       IN IF at # {}
          THEN LET i == CHOOSE j \in at : TRUE
               IN AddLines([lines EXCEPT ![i].quantity = @ + it.quantity], Tail(items), n)
          ELSE AddLines(Append(lines, [id |-> [cart |-> IF gw.id = 0 THEN nextCart ELSE gw.id,
                                               n |-> n],
                                       merchandise |-> it.merchandiseId,
                                       quantity |-> it.quantity]),
                        Tail(items), n + 1)

UpdateLines(lines, items) ==
  LET new(l) == LET hit == {i \in DOMAIN items : items[i].id = l.id}
                IN IF hit = {} THEN l
                   ELSE [l EXCEPT !.quantity = items[CHOOSE i \in hit : TRUE].quantity]
  IN SelectSeq([i \in DOMAIN lines |-> new(lines[i])], LAMBDA l : l.quantity > 0)

RemoveLines(lines, ids) == SelectSeq(lines, LAMBDA l : l.id \notin ids)

Applicable ==
  CASE pending.kind = "create" -> TRUE
    [] pending.kind = "add" -> TRUE
    [] OTHER -> gw.id # 0 /\ CarriedIds(pending.kind, pending.payload) \subseteq LineIds

Outcomes ==
  IF pending.kind = "create" THEN {"applied", "failed"}
  ELSE IF Applicable THEN {"applied", "ignored", "userErrors"}
  ELSE {"invalid", "userErrors"}

RestStatus == IF gw.id = 0 THEN "uninitialized" ELSE "idle"

Faulty == {"failed", "ignored", "userErrors"}

Finish(outcome, made, reported) ==
  /\ outcome \in Faulty => faultsLeft > 0
  /\ faultsLeft' = IF outcome \in Faulty THEN faultsLeft - 1 ELSE faultsLeft
  /\ log' = IF pending.call \notin Calls THEN log
            ELSE [log EXCEPT ![pending.call][pending.slot].outcome = outcome,
                             ![pending.call][pending.slot].made = made,
                             ![pending.call][pending.slot].reported = reported]

\* The remote service finishes the request in flight.
GatewayComplete ==
  /\ pending # None
  /\ pending' = None
  /\ UNCHANGED <<stored, countryCode, languageCode, autoRecover, mutationInProgressRef,
                 preOpCartStateRef, isRecovering, lastErrors, pc, op, ui, origErrors,
                 newCartIdOf, result, callbacks, started>>
  /\ \E outcome \in Outcomes :
       CASE outcome = "applied" /\ pending.kind = "create" ->
              /\ gw' = [status |-> "idle", id |-> nextCart, lines |-> <<>>,
                        updatedAt |-> clock + 1, userErrors |-> <<>>]
              /\ nextCart' = nextCart + 1
              /\ clock' = clock + 1
              /\ Finish(outcome, nextCart, 0)
              /\ nextLine' = 1
         [] outcome = "failed" ->
              /\ gw' = [status |-> "uninitialized", id |-> 0, lines |-> <<>>,
                        updatedAt |-> 0, userErrors |-> <<>>]
              /\ Finish(outcome, 0, 0)
              /\ nextLine' = 1
              /\ UNCHANGED <<nextCart, clock>>
         [] outcome = "applied" /\ pending.kind = "add" ->
              LET lines == AddLines(gw.lines, pending.payload, nextLine)
              IN /\ gw' = [status |-> "idle",
                           id |-> IF gw.id = 0 THEN nextCart ELSE gw.id,
                           lines |-> lines, updatedAt |-> clock + 1, userErrors |-> <<>>]
                 /\ nextCart' = IF gw.id = 0 THEN nextCart + 1 ELSE nextCart
                 /\ nextLine' = nextLine + (Len(lines) - Len(gw.lines))
                 /\ clock' = clock + 1
                 /\ Finish(outcome, IF gw.id = 0 THEN nextCart ELSE 0, 0)
         [] outcome = "applied" /\ pending.kind \in {"update", "remove"} ->
              /\ gw' = [gw EXCEPT !.status = "idle",
                                  !.lines = IF pending.kind = "update"
                                            THEN UpdateLines(@, pending.payload)
                                            ELSE RemoveLines(@, Range(pending.payload)),
                                  !.updatedAt = clock + 1,
                                  !.userErrors = <<>>]
              /\ clock' = clock + 1
              /\ Finish(outcome, 0, 0)
              /\ UNCHANGED <<nextCart, nextLine>>
         [] outcome \in {"ignored", "invalid"} ->
              /\ gw' = [gw EXCEPT !.status = RestStatus, !.userErrors = <<>>]
              /\ Finish(outcome, 0, 0)
              /\ UNCHANGED <<nextCart, nextLine, clock>>
         [] outcome = "userErrors" ->
              /\ \E n \in UserErrorCounts :
                   /\ gw' = [gw EXCEPT !.status = RestStatus,
                                       !.userErrors = UserErrorList(n)]
                   /\ Finish(outcome, 0, n)
              /\ UNCHANGED <<nextCart, nextLine, clock>>

\* an addMultipleToCart that goes on whatever safeUpdateLines returned
UpdatedFirst_Regardless(c, r) ==
  /\ ui'[c].name = "addMultipleToCart" /\ op'[c] # None /\ op'[c].type = "update"
  /\ r # Thrown

\* ----------------------------------------------------------- useSafeCart
\* addMultipleToCart goes on after a successful safeUpdateLines: to safeAddLines
\* when it has new items, and otherwise to a result of its own with the cart of
\* the render it was called in.
UpdatedFirst(c, r) ==
  /\ ui'[c].name = "addMultipleToCart" /\ op'[c] # None /\ op'[c].type = "update"
  /\ r # Thrown /\ r.success

Handed(c, r) ==
  IF UpdatedFirst(c, r)
  THEN [success |-> TRUE, cart |-> ui'[c].seen, errors |-> <<>>, wasRecovered |-> FALSE,
        newCartId |-> 0]
  ELSE r

\* The hook's call resolves with r.
Return(c, r) ==
  IF UpdatedFirst(c, r) /\ ui'[c].newItems # <<>>
  THEN /\ result' = [result EXCEPT ![c] = None]
       /\ pc' = [pc EXCEPT ![c] = "updated"]
  ELSE /\ result' = [result EXCEPT ![c] = Handed(c, r)]
       /\ pc' = [pc EXCEPT ![c] = "done"]

Suspend(c, at) ==
  /\ result' = [result EXCEPT ![c] = None]
  /\ pc' = [pc EXCEPT ![c] = at]

Call(c, name) ==
  callbacks' = [callbacks EXCEPT ![c] = Append(IF Free(c) THEN <<>> ELSE @, name)]

\* a context record of the default market, whatever the current one
NewContext_Default ==
  [countryCode |-> "US", languageCode |-> "EN", createdAt |-> clock]

NewContext ==
  [countryCode |-> countryCode, languageCode |-> languageCode, createdAt |-> clock]

\* performRecovery from its entry to createFreshCart's wait: setIsRecovering(true),
\* clearStoredCartContext(), cart.cartCreate({}).  A throwing cartCreate is caught
\* by createFreshCart, which returns null.
performRecovery(c, originalErrors) ==
  /\ stored' = None
  /\ origErrors' = [origErrors EXCEPT ![c] = originalErrors]
  /\ \E threw \in BOOLEAN :
       IF threw
       THEN /\ Throw(c, "create", <<>>)
            /\ isRecovering' = FALSE
            /\ Call(c, "onRecoveryFailed")
            /\ Return(c, buildFailureResult(<<createRecoveryFailedError(originalErrors)>>))
       ELSE /\ Send(c, "create", <<>>)
            /\ isRecovering' = TRUE
            /\ callbacks' = Keep(callbacks, c, <<>>)
            /\ Suspend(c, "waitCreate")

\* a hook that recovers whatever its options say
ShouldRecover_Always == TRUE

\* `if (autoRecover)`
ShouldRecover == autoRecover

\* `if (mutationInProgressRef.current)`: the single-flight guard
GuardRejects == mutationInProgressRef

\* executeSafeMutation from its entry to its first wait.  `return performRecovery(..)`
\* hands the promise back without awaiting it, so the finally block clears the flag
\* as soon as performRecovery suspends.
executeSafeMutation(c, mutationType, payload, expectedQuantityChange) ==
  /\ op' = [op EXCEPT ![c] = [type |-> mutationType, payload |-> payload,
                              expected |-> expectedQuantityChange]]
  /\ newCartIdOf' = [newCartIdOf EXCEPT ![c] = 0]
  /\ UNCHANGED <<clock, nextCart, nextLine, countryCode, languageCode, autoRecover>>
  /\ IF GuardRejects
     THEN /\ Return(c, buildFailureResult(
                         <<UnknownError("Another mutation is already in progress")>>))
          /\ log' = [log EXCEPT ![c] = <<>>]
          /\ origErrors' = [origErrors EXCEPT ![c] = <<>>]
          /\ callbacks' = [callbacks EXCEPT ![c] = <<>>]
          /\ UNCHANGED <<gw, pending, faultsLeft, stored, mutationInProgressRef,
                         preOpCartStateRef, isRecovering, lastErrors>>
     ELSE IF ~isContextMatch(countryCode, languageCode) /\ stored # None
     THEN LET mismatchError ==
                createContextMismatchError(stored, <<countryCode, languageCode>>)
          IN IF ShouldRecover
             THEN /\ lastErrors' = <<>>
                  /\ performRecovery(c, <<mismatchError>>)
                  /\ mutationInProgressRef' = FALSE
                  /\ UNCHANGED preOpCartStateRef
             ELSE /\ lastErrors' = <<mismatchError>>
                  /\ Return(c, buildFailureResult(<<mismatchError>>))
                  /\ mutationInProgressRef' = FALSE
                  /\ log' = [log EXCEPT ![c] = <<>>]
                  /\ origErrors' = [origErrors EXCEPT ![c] = <<>>]
                  /\ callbacks' = [callbacks EXCEPT ![c] = <<>>]
                  /\ UNCHANGED <<gw, pending, faultsLeft, stored, preOpCartStateRef,
                                 isRecovering>>
     ELSE /\ preOpCartStateRef' = capturePreOpState
          /\ origErrors' = [origErrors EXCEPT ![c] = <<>>]
          /\ callbacks' = [callbacks EXCEPT ![c] = <<>>]
          /\ UNCHANGED <<stored, isRecovering>>
          /\ \E threw \in BOOLEAN :
               IF threw
               THEN /\ Throw(c, mutationType, payload)
                    /\ lastErrors' = <<UnknownError("thrown by the mutation")>>
                    /\ Return(c, buildFailureResult(
                                   <<UnknownError("thrown by the mutation")>>))
                    /\ mutationInProgressRef' = FALSE
               ELSE /\ Send(c, mutationType, payload)
                    /\ lastErrors' = <<>>
                    /\ Suspend(c, "wait")
                    /\ mutationInProgressRef' = TRUE

\* executeSafeMutation after waitForMutationComplete: classification.
Classify(c) ==
  /\ pc[c] = "wait"
  /\ Idle
  /\ mutationInProgressRef' = FALSE
  /\ UNCHANGED <<clock, nextCart, nextLine, countryCode, languageCode, autoRecover,
                 newCartIdOf, op, ui, preOpCartStateRef, started>>
  /\ LET userErrors == checkForUserErrors
         currentCart == getCurrentCart
         isNoOp == detectNoOpMutation(preOpCartStateRef, currentCart, op[c].type,
                                      op[c].expected)
         errors == IF userErrors # <<>> THEN extractUserErrors(userErrors)
                   ELSE <<createStaleCartError(gw.id), createNoOpError>>
     IN IF userErrors # <<>> \/ isNoOp
        THEN IF ShouldRecover
             THEN /\ performRecovery(c, errors)
                  /\ UNCHANGED lastErrors
             ELSE /\ lastErrors' = errors
                  /\ Return(c, buildFailureResult(errors))
                  /\ UNCHANGED <<gw, pending, log, faultsLeft, stored, isRecovering, origErrors,
                                 callbacks>>
        ELSE /\ IF currentCart # None
                THEN Return(c, buildSuccessResult(currentCart, FALSE, 0))
                ELSE Return(c, buildFailureResult(
                                 <<UnknownError("No cart state after mutation")>>))
             /\ UNCHANGED <<gw, pending, log, faultsLeft, stored, isRecovering, origErrors,
                            callbacks, lastErrors>>

\* performRecovery after createFreshCart's wait: the rest of createFreshCart, then
\* capturePreOpState() and the replay of the original mutation.  Nothing catches a
\* throwing replay: the finally block runs and the promise rejects.
RecoveryReplay(c) ==
  /\ pc[c] = "waitCreate"
  /\ Idle
  /\ UNCHANGED <<clock, nextCart, nextLine, countryCode, languageCode, autoRecover,
                 op, ui, origErrors, mutationInProgressRef, lastErrors, started>>
  /\ LET newCart == getCurrentCart
     IN IF newCart # None /\ newCart.id # 0
        THEN /\ stored' = NewContext
             /\ newCartIdOf' = [newCartIdOf EXCEPT ![c] = newCart.id]
             /\ preOpCartStateRef' = capturePreOpState
             /\ UNCHANGED callbacks
             /\ \E threw \in BOOLEAN :
                  IF threw
                  THEN /\ Throw(c, op[c].type, op[c].payload)
                       /\ isRecovering' = FALSE
                       /\ Return(c, Thrown)
                  ELSE /\ Send(c, op[c].type, op[c].payload)
                       /\ Suspend(c, "waitReplay")
                       /\ UNCHANGED isRecovering
        ELSE /\ isRecovering' = FALSE
             /\ Call(c, "onRecoveryFailed")
             /\ Return(c, buildFailureResult(<<createRecoveryFailedError(origErrors[c])>>))
             /\ UNCHANGED <<gw, pending, log, faultsLeft, stored, newCartIdOf, preOpCartStateRef>>

\* a recovery that starts over when the replay reports userErrors
RecoveryFinish_Retries(c) ==
  /\ pc[c] = "waitReplay"
  /\ Idle
  /\ UNCHANGED <<clock, nextCart, nextLine, countryCode, languageCode, autoRecover,
                 op, ui, newCartIdOf, mutationInProgressRef, preOpCartStateRef,
                 lastErrors, started>>
  /\ IF checkForUserErrors # <<>>
     THEN performRecovery(c, extractUserErrors(checkForUserErrors))
     ELSE /\ isRecovering' = FALSE
          /\ UNCHANGED <<gw, pending, log, stored, origErrors, faultsLeft>>
          /\ IF getCurrentCart # None
             THEN /\ Call(c, "onRecovery")
                  /\ Return(c, buildSuccessResult(getCurrentCart, TRUE, newCartIdOf[c]))
             ELSE /\ Call(c, "onRecoveryFailed")
                  /\ Return(c, buildFailureResult(
                                 <<createRecoveryFailedError(origErrors[c])>>))

\* performRecovery after the replay's wait.
RecoveryFinish(c) ==
  /\ pc[c] = "waitReplay"
  /\ Idle
  /\ isRecovering' = FALSE
  /\ UNCHANGED <<gw, pending, log, clock, nextCart, nextLine, stored, countryCode,
                 languageCode, autoRecover, op, ui, origErrors, newCartIdOf,
                 mutationInProgressRef, preOpCartStateRef, lastErrors, faultsLeft,
                 started>>
  /\ LET userErrors == checkForUserErrors
         recoveredCart == getCurrentCart
     IN IF userErrors # <<>>
        THEN /\ Call(c, "onRecoveryFailed")
             /\ Return(c, buildFailureResult(extractUserErrors(userErrors)))
        ELSE IF recoveredCart # None
        THEN /\ Call(c, "onRecovery")
             /\ Return(c, buildSuccessResult(recoveredCart, TRUE, newCartIdOf[c]))
        ELSE /\ Call(c, "onRecoveryFailed")
             /\ Return(c, buildFailureResult(<<createRecoveryFailedError(origErrors[c])>>))

\* `{code: 'RECOVERY_FAILED', message: 'Failed to create new cart'}`
ForceFailedError == Err("RECOVERY_FAILED", "Failed to create new cart", <<>>, 0)

\* forceCreateNewCart from its entry to createFreshCart's wait.  It neither reads
\* nor sets the single-flight flag.
forceCreateNewCart(c) ==
  /\ op' = [op EXCEPT ![c] = None]
  /\ newCartIdOf' = [newCartIdOf EXCEPT ![c] = 0]
  /\ origErrors' = [origErrors EXCEPT ![c] = <<>>]
  /\ callbacks' = [callbacks EXCEPT ![c] = <<>>]
  /\ stored' = None
  /\ UNCHANGED <<clock, nextCart, nextLine, countryCode, languageCode, autoRecover,
                 mutationInProgressRef, preOpCartStateRef>>
  /\ \E threw \in BOOLEAN :
       IF threw
       THEN /\ Throw(c, "create", <<>>)
            /\ isRecovering' = FALSE
            /\ lastErrors' = <<ForceFailedError>>
            /\ Return(c, buildFailureResult(<<ForceFailedError>>))
       ELSE /\ Send(c, "create", <<>>)
            /\ isRecovering' = TRUE
            /\ lastErrors' = <<>>
            /\ Suspend(c, "waitForce")

\* forceCreateNewCart after createFreshCart's wait.
ForceFinish(c) ==
  /\ pc[c] = "waitForce"
  /\ Idle
  /\ isRecovering' = FALSE
  /\ UNCHANGED <<gw, pending, log, clock, nextCart, nextLine, countryCode, languageCode,
                 autoRecover, op, ui, origErrors, mutationInProgressRef,
                 preOpCartStateRef, faultsLeft, started>>
  /\ LET newCart == getCurrentCart
     IN IF newCart # None /\ newCart.id # 0
        THEN /\ stored' = NewContext
             /\ newCartIdOf' = [newCartIdOf EXCEPT ![c] = newCart.id]
             /\ Call(c, "onRecovery")
             /\ Return(c, buildSuccessResult(newCart, TRUE, newCart.id))
             /\ UNCHANGED lastErrors
        ELSE /\ lastErrors' = <<ForceFailedError>>
             /\ Return(c, buildFailureResult(<<ForceFailedError>>))
             /\ UNCHANGED <<stored, newCartIdOf, callbacks>>

\* a clearErrors that also releases the single-flight flag
ClearErrors_AndFlag ==
  /\ lastErrors' = <<>>
  /\ mutationInProgressRef' = FALSE
  /\ UNCHANGED <<gw, pending, clock, nextCart, nextLine, stored, countryCode,
                 languageCode, autoRecover, preOpCartStateRef, isRecovering, pc, op,
                 ui, origErrors, newCartIdOf, result, log, callbacks, faultsLeft,
                 started>>

\* clearErrors: `setLastErrors([])`
ClearErrors ==
  /\ lastErrors' = <<>>
  /\ UNCHANGED <<gw, pending, clock, nextCart, nextLine, stored, countryCode,
                 languageCode, autoRecover, mutationInProgressRef, preOpCartStateRef,
                 isRecovering, pc, op, ui, origErrors, newCartIdOf, result, log,
                 callbacks, faultsLeft, started>>

\* a safeAddLines that asks the gateway for a cart holding the lines
safeAddLines_ViaCreate(c, lines) ==
  executeSafeMutation(c, "create", lines, [n |-> SumQty(lines)])

safeAddLines(c, lines) ==
  executeSafeMutation(c, "add", lines, [n |-> SumQty(lines)])

safeUpdateLines(c, lines) ==
  executeSafeMutation(c, "update", lines, None)

safeRemoveLines(c, lineIds) ==
  executeSafeMutation(c, "remove", lineIds, [n |-> Len(lineIds)])

\* ------------------------------------------------------ SafeCartProvider
Resolved(c) == pc[c] \in {"idle", "done"}

CanStart(c) ==
  /\ started < MaxCalls
  /\ Resolved(c)
  /\ \A d \in Calls : d < c => ~Resolved(d)

\* The caller's slot starts afresh.
BeginWith(c, name, merchandiseId, quantity, lineId, items) ==
  /\ started' = started + 1
  /\ ui' = [ui EXCEPT ![c] =
              [name |-> name, merchandiseId |-> merchandiseId, quantity |-> quantity,
               lineId |-> lineId, items |-> items,
               newItems |-> SelectSeq(items, LAMBDA it :
                                               findExistingLine(it.merchandiseId) = None),
               seen |-> getCurrentCart,
               status |-> gw.status,            \* cart.status of that render
               userErrors |-> gw.userErrors,    \* and its cart.userErrors
               cart |-> gw.id,                  \* the cart the caller saw
               lineIds |-> LineIds,             \* and its lines
               lines |-> gw.lines,
               totalQuantity |-> TotalQuantity,
               updatedAt |-> gw.updatedAt,
               busy |-> mutationInProgressRef,  \* a mutation was pending
               mismatch |-> /\ stored # None
                            /\ <<stored.countryCode, stored.languageCode>>
                                 # <<countryCode, languageCode>>]]

Begin(c, name, merchandiseId, quantity, lineId) ==
  BeginWith(c, name, merchandiseId, quantity, lineId, <<>>)

\* a rejection that also wipes lastErrors
LocalFailure_ClearsErrors(c, message) ==
  /\ op' = [op EXCEPT ![c] = None]
  /\ Return(c, buildFailureResult(<<UnknownError(message)>>))
  /\ log' = [log EXCEPT ![c] = <<>>]
  /\ origErrors' = [origErrors EXCEPT ![c] = <<>>]
  /\ callbacks' = [callbacks EXCEPT ![c] = <<>>]
  /\ newCartIdOf' = [newCartIdOf EXCEPT ![c] = 0]
  /\ lastErrors' = <<>>
  /\ UNCHANGED <<gw, pending, clock, nextCart, nextLine, stored, countryCode,
                 languageCode, autoRecover, mutationInProgressRef, preOpCartStateRef,
                 isRecovering, faultsLeft>>

LocalFailure(c, message) ==
  /\ op' = [op EXCEPT ![c] = None]
  /\ Return(c, buildFailureResult(<<UnknownError(message)>>))
  /\ log' = [log EXCEPT ![c] = <<>>]
  /\ origErrors' = [origErrors EXCEPT ![c] = <<>>]
  /\ callbacks' = [callbacks EXCEPT ![c] = <<>>]
  /\ newCartIdOf' = [newCartIdOf EXCEPT ![c] = 0]
  /\ UNCHANGED <<gw, pending, clock, nextCart, nextLine, stored, countryCode,
                 languageCode, autoRecover, mutationInProgressRef, preOpCartStateRef,
                 isRecovering, lastErrors, faultsLeft>>

\* `useSafeCart({countryCode, languageCode, autoRecover: true, ...})`
ViaProvider == autoRecover

\* an addToCart that sets the line to the requested quantity
AddToCart_Replaces(c, merchandiseId, quantity) ==
  /\ ViaProvider
  /\ CanStart(c)
  /\ Begin(c, "addToCart", merchandiseId, quantity, [cart |-> 0, n |-> 0])
  /\ IF merchandiseId = NoMerch \/ quantity <= 0
     THEN LocalFailure(c, "Invalid merchandise ID or quantity")
     ELSE LET existingLine == findExistingLine(merchandiseId)
          IN IF existingLine # None
             THEN safeUpdateLines(c, <<[id |-> existingLine.id, quantity |-> quantity]>>)
             ELSE safeAddLines(c, <<[merchandiseId |-> merchandiseId,
                                     quantity |-> quantity]>>)

AddToCart(c, merchandiseId, quantity) ==
  /\ ViaProvider
  /\ CanStart(c)
  /\ Begin(c, "addToCart", merchandiseId, quantity, [cart |-> 0, n |-> 0])
  /\ IF merchandiseId = NoMerch \/ quantity <= 0
     THEN LocalFailure(c, "Invalid merchandise ID or quantity")
     ELSE LET existingLine == findExistingLine(merchandiseId)
          IN IF existingLine # None
             THEN safeUpdateLines(c, <<[id |-> existingLine.id,
                                        quantity |-> existingLine.quantity + quantity]>>)
             ELSE safeAddLines(c, <<[merchandiseId |-> merchandiseId,
                                     quantity |-> quantity]>>)

\* an updateQuantity that sends an update whatever the quantity
UpdateQuantity_AlwaysUpdates(c, lineId, newQuantity) ==
  /\ ViaProvider
  /\ CanStart(c)
  /\ Begin(c, "updateQuantity", NoMerch, newQuantity, lineId)
  /\ IF lineId = NoLineId
     THEN LocalFailure(c, "Invalid line ID")
     ELSE safeUpdateLines(c, <<[id |-> lineId, quantity |-> newQuantity]>>)

UpdateQuantity(c, lineId, newQuantity) ==
  /\ ViaProvider
  /\ CanStart(c)
  /\ Begin(c, "updateQuantity", NoMerch, newQuantity, lineId)
  /\ IF lineId = NoLineId
     THEN LocalFailure(c, "Invalid line ID")
     ELSE IF newQuantity <= 0
     THEN safeRemoveLines(c, <<lineId>>)
     ELSE safeUpdateLines(c, <<[id |-> lineId, quantity |-> newQuantity]>>)

RemoveFromCart(c, lineId) ==
  /\ ViaProvider
  /\ CanStart(c)
  /\ Begin(c, "removeFromCart", NoMerch, 0, lineId)
  /\ IF lineId = NoLineId
     THEN LocalFailure(c, "Invalid line ID")
     ELSE safeRemoveLines(c, <<lineId>>)

\* the items of addMultipleToCart that go to lines already in the cart
UpdateItems(items) ==
  LET hits == SelectSeq(items, LAMBDA it : findExistingLine(it.merchandiseId) # None)
  IN [i \in DOMAIN hits |->
        [id |-> findExistingLine(hits[i].merchandiseId).id,
         quantity |-> findExistingLine(hits[i].merchandiseId).quantity
                        + hits[i].quantity]]

AddMultipleToCart(c, items) ==
  /\ ViaProvider
  /\ CanStart(c)
  /\ BeginWith(c, "addMultipleToCart", NoMerch, 0, [cart |-> 0, n |-> 0], items)
  /\ IF items = <<>>
     THEN LocalFailure(c, "No items provided")
     ELSE IF UpdateItems(items) # <<>>
     THEN safeUpdateLines(c, UpdateItems(items))
     ELSE safeAddLines(c, ui'[c].newItems)

\* addMultipleToCart after `await safeUpdateLines(updateItems)` succeeded:
\* `return safeAddLines(newItems)`
AddMultipleThenAdd(c) ==
  /\ pc[c] = "updated"
  /\ ui' = [ui EXCEPT ![c].cart = gw.id,
                      ![c].lineIds = LineIds,
                      ![c].busy = mutationInProgressRef,
                      ![c].mismatch = /\ stored # None
                                      /\ <<stored.countryCode, stored.languageCode>>
                                           # <<countryCode, languageCode>>]
  /\ UNCHANGED started
  /\ safeAddLines(c, ui[c].newItems)

ForceNewCart(c) ==
  /\ CanStart(c)
  /\ Begin(c, "forceCreateNewCart", NoMerch, 0, [cart |-> 0, n |-> 0])
  /\ forceCreateNewCart(c)

\* --------------------------------------------- the hook called on its own
CallSafeAddLines(c, merchandiseId, quantity) ==
  /\ ~ViaProvider
  /\ CanStart(c)
  /\ Begin(c, "safeAddLines", merchandiseId, quantity, [cart |-> 0, n |-> 0])
  /\ safeAddLines(c, <<[merchandiseId |-> merchandiseId, quantity |-> quantity]>>)

CallSafeUpdateLines(c, lineId, quantity) ==
  /\ ~ViaProvider
  /\ CanStart(c)
  /\ Begin(c, "safeUpdateLines", NoMerch, quantity, lineId)
  /\ safeUpdateLines(c, <<[id |-> lineId, quantity |-> quantity]>>)

CallSafeRemoveLines(c, lineId) ==
  /\ ~ViaProvider
  /\ CanStart(c)
  /\ Begin(c, "safeRemoveLines", NoMerch, 0, lineId)
  /\ safeRemoveLines(c, <<lineId>>)

\* ------------------------------------------------------------------ system
NoCart == [status |-> "uninitialized", id |-> 0, lines |-> <<>>, updatedAt |-> 0,
           userErrors |-> <<>>]

InitialLines ==
  {<<[id |-> [cart |-> 1, n |-> 1], merchandise |-> "gid://variant/1", quantity |-> 1]>>}

Start(budget) ==
  /\ \/ /\ gw = NoCart
        /\ nextCart = 1 /\ nextLine = 1
     \/ /\ \E ls \in InitialLines :
             /\ gw = [status |-> "idle", id |-> 1, lines |-> ls, updatedAt |-> 1,
                      userErrors |-> <<>>]
             /\ nextLine = Len(ls) + 1
        /\ nextCart = 2
  /\ pending = None
  /\ clock = 1
  /\ stored \in {None} \cup {[countryCode |-> x[1], languageCode |-> x[2], createdAt |-> 0]
                               : x \in Contexts}
  /\ countryCode = "CA" /\ languageCode = "FR"
  /\ autoRecover \in BOOLEAN
  /\ mutationInProgressRef = FALSE
  /\ preOpCartStateRef = None
  /\ isRecovering = FALSE
  /\ lastErrors = <<>>
  /\ pc = [c \in Calls |-> "idle"]
  /\ op = [c \in Calls |-> None]
  /\ ui = [c \in Calls |-> None]
  /\ origErrors = [c \in Calls |-> <<>>]
  /\ newCartIdOf = [c \in Calls |-> 0]
  /\ result = [c \in Calls |-> None]
  /\ log = [c \in Calls |-> <<>>]
  /\ callbacks = [c \in Calls |-> <<>>]
  /\ faultsLeft = budget
  /\ started = 0

Init == Start(MaxFaults)

Next ==
  \/ \E c \in Calls, m \in Merch \cup {NoMerch}, q \in Quantities : AddToCart(c, m, q)
  \/ \E c \in Calls, l \in KnownLineIds \cup {NoLineId}, q \in Quantities :
       UpdateQuantity(c, l, q)
  \/ \E c \in Calls, l \in KnownLineIds \cup {NoLineId} : RemoveFromCart(c, l)
  \/ \E c \in Calls, m \in Merch, q \in Quantities \ {0} : CallSafeAddLines(c, m, q)
  \/ \E c \in Calls, l \in KnownLineIds, q \in Quantities : CallSafeUpdateLines(c, l, q)
  \/ \E c \in Calls, l \in KnownLineIds : CallSafeRemoveLines(c, l)
  \/ \E c \in Calls, items \in ItemLists : AddMultipleToCart(c, items)
  \/ \E c \in Calls : AddMultipleThenAdd(c)
  \/ \E c \in Calls : ForceNewCart(c)
  \/ \E c \in Calls : ForceFinish(c)
  \/ \E c \in Calls : Classify(c)
  \/ \E c \in Calls : RecoveryReplay(c)
  \/ \E c \in Calls : RecoveryFinish(c)
  \/ ClearErrors
  \/ GatewayComplete

Spec == Init /\ [][Next]_vars

\* ------------------------------------------- hooks/use-cart-actions.ts
\* a request of no orchestrated call
NoCall == 0

\* The addToCart of hooks/use-cart-actions.ts, the hook of the product page and of
\* the recommended products: it looks the line up in useCart().lines and calls
\* linesUpdate or linesAdd of useCart() itself, waits for nothing and returns true;
\* it returns false for an invalid input and when the call throws.
LegacyAddToCart(merchandiseId, quantityToAdd) ==
  /\ ViaProvider
  /\ started < MaxCalls
  /\ started' = started + 1
  /\ UNCHANGED <<clock, nextCart, nextLine, stored, countryCode, languageCode,
                 autoRecover, mutationInProgressRef, preOpCartStateRef, isRecovering,
                 lastErrors, pc, op, ui, origErrors, newCartIdOf, result, log,
                 callbacks>>
  /\ IF merchandiseId = NoMerch \/ quantityToAdd <= 0
     THEN UNCHANGED <<gw, pending, faultsLeft>>
     ELSE LET existingLine == findExistingLine(merchandiseId)
              kind == IF existingLine # None THEN "update" ELSE "add"
              payload == IF existingLine # None
                         THEN <<[id |-> existingLine.id,
                                 quantity |-> existingLine.quantity + quantityToAdd]>>
                         ELSE <<[merchandiseId |-> merchandiseId,
                                 quantity |-> quantityToAdd]>>
          IN \E threw \in BOOLEAN :
               IF threw
               THEN /\ faultsLeft > 0
                    /\ faultsLeft' = faultsLeft - 1
                    /\ UNCHANGED <<gw, pending>>
               ELSE /\ UNCHANGED faultsLeft
                    /\ IF pending # None
                       THEN UNCHANGED <<gw, pending>>
                       ELSE /\ pending' = [call |-> NoCall, kind |-> kind,
                                           payload |-> payload, slot |-> 0]
                            /\ gw' = [gw EXCEPT !.status = "updating"]

\* The storefront with both hooks mounted.
NextLegacyHook ==
  \/ Next
  \/ \E m \in Merch \cup {NoMerch}, q \in Quantities : LegacyAddToCart(m, q)

SpecLegacyHook == Init /\ [][NextLegacyHook]_vars

\* --------------------------------------- the cart of the caller's render
\* executeSafeMutation after waitForMutationComplete, when `cart` inside the
\* callbacks is the value useCart() returned in the render the call was made in:
\* checkStatus reads that render's cart.status, so the wait ends at its first check
\* whatever the gateway is doing, and checkForUserErrors and getCurrentCart read
\* that render's cart.
ClassifyEarly(c) ==
  /\ pc[c] = "wait"
  /\ ui[c].status \in {"idle", "uninitialized"}
  /\ mutationInProgressRef' = FALSE
  /\ UNCHANGED <<clock, nextCart, nextLine, countryCode, languageCode, autoRecover,
                 newCartIdOf, op, ui, preOpCartStateRef, started>>
  /\ LET userErrors == ui[c].userErrors
         currentCart == ui[c].seen
         isNoOp == detectNoOpMutation(preOpCartStateRef, currentCart, op[c].type,
                                      op[c].expected)
         errors == IF userErrors # <<>> THEN extractUserErrors(userErrors)
                   ELSE <<createStaleCartError(ui[c].cart), createNoOpError>>
     IN IF userErrors # <<>> \/ isNoOp
        THEN IF ShouldRecover
             THEN /\ performRecovery(c, errors)
                  /\ UNCHANGED lastErrors
             ELSE /\ lastErrors' = errors
                  /\ Return(c, buildFailureResult(errors))
                  /\ UNCHANGED <<gw, pending, log, faultsLeft, stored, isRecovering,
                                 origErrors, callbacks>>
        ELSE /\ IF currentCart # None
                THEN Return(c, buildSuccessResult(currentCart, FALSE, 0))
                ELSE Return(c, buildFailureResult(
                                 <<UnknownError("No cart state after mutation")>>))
             /\ UNCHANGED <<gw, pending, log, faultsLeft, stored, isRecovering,
                            origErrors, callbacks, lastErrors>>

NextStaleView ==
  \/ Next
  \/ \E c \in Calls : ClassifyEarly(c)

SpecStaleView == Init /\ [][NextStaleView]_vars

\* ----------------------------------------- detectNoOpMutation on its own
Mutations == {"add", "update", "remove"}

\* the snapshots and expectations detectNoOpMutation is given
Stamps == {1, 2}

Totals == 0..MaxQty

PreviousCarts == {None} \cup [updatedAt : Stamps, totalQuantity : Totals]

ExpectedChanges == {None} \cup [n : Totals]

LinesOfTotal(q) ==
  IF q = 0 THEN <<>>
  ELSE <<[id |-> [cart |-> 1, n |-> 1], merchandise |-> "gid://variant/1",
          quantity |-> q]>>

HookOf(mutationType) ==
  CASE mutationType = "add" -> "safeAddLines"
    [] mutationType = "update" -> "safeUpdateLines"
    [] OTHER -> "safeRemoveLines"

\* A call of the hook (autoRecover off) at the end of its wait, with no userErrors:
\* the snapshot of before the mutation, the cart of after it, the kind of the
\* mutation and the expected change are any of the values above.
InitDetect ==
  /\ \E status \in {"idle", "uninitialized"}, at \in Stamps, q \in Totals :
       gw = [status |-> status, id |-> 1, lines |-> LinesOfTotal(q), updatedAt |-> at,
             userErrors |-> <<>>]
  /\ nextCart = 2 /\ nextLine = 2
  /\ pending = None
  /\ clock = 2
  /\ stored = None
  /\ countryCode = "CA" /\ languageCode = "FR"
  /\ autoRecover = FALSE
  /\ mutationInProgressRef = TRUE
  /\ preOpCartStateRef \in PreviousCarts
  /\ isRecovering = FALSE
  /\ lastErrors = <<>>
  /\ pc = [c \in Calls |-> IF c = 1 THEN "wait" ELSE "idle"]
  /\ \E mutationType \in Mutations, expected \in ExpectedChanges :
       /\ op = [c \in Calls |->
                  IF c = 1 THEN [type |-> mutationType, payload |-> <<>>,
                                 expected |-> expected]
                  ELSE None]
       /\ ui = [c \in Calls |->
                  IF c = 1
                  THEN [name |-> HookOf(mutationType), merchandiseId |-> NoMerch,
                        quantity |-> 0, lineId |-> NoLineId, items |-> <<>>,
                        newItems |-> <<>>, seen |-> None, status |-> "idle",
                        userErrors |-> <<>>, cart |-> 1, lineIds |-> {}, lines |-> <<>>,
                        totalQuantity |-> 0, updatedAt |-> 1, busy |-> FALSE,
                        mismatch |-> FALSE]
                  ELSE None]
  /\ origErrors = [c \in Calls |-> <<>>]
  /\ newCartIdOf = [c \in Calls |-> 0]
  /\ result = [c \in Calls |-> None]
  /\ log = [c \in Calls |-> <<>>]
  /\ callbacks = [c \in Calls |-> <<>>]
  /\ faultsLeft = 0
  /\ started = 1

NextDetect == \E c \in Calls : Classify(c)

SpecDetect == InitDetect /\ [][NextDetect]_vars

\* --------------------------------------------- isContextMatch on its own
Countries == {"US", "CA"}

Languages == {"EN", "FR"}

\* what localStorage may hold: nothing (or nothing readable), or a context of any
\* country, language and age
StoredContexts ==
  {None} \cup [countryCode : Countries, languageCode : Languages, createdAt : 0..2]

\* The hook on its own (autoRecover off) in any current context over any stored one.
InitContext ==
  /\ \/ /\ gw = NoCart
        /\ nextCart = 1 /\ nextLine = 1
     \/ /\ \E ls \in InitialLines :
             /\ gw = [status |-> "idle", id |-> 1, lines |-> ls, updatedAt |-> 1,
                      userErrors |-> <<>>]
             /\ nextLine = Len(ls) + 1
        /\ nextCart = 2
  /\ pending = None
  /\ clock = 2
  /\ stored \in StoredContexts
  /\ countryCode \in Countries /\ languageCode \in Languages
  /\ autoRecover = FALSE
  /\ mutationInProgressRef = FALSE
  /\ preOpCartStateRef = None
  /\ isRecovering = FALSE
  /\ lastErrors = <<>>
  /\ pc = [c \in Calls |-> "idle"]
  /\ op = [c \in Calls |-> None]
  /\ ui = [c \in Calls |-> None]
  /\ origErrors = [c \in Calls |-> <<>>]
  /\ newCartIdOf = [c \in Calls |-> 0]
  /\ result = [c \in Calls |-> None]
  /\ log = [c \in Calls |-> <<>>]
  /\ callbacks = [c \in Calls |-> <<>>]
  /\ faultsLeft = 0
  /\ started = 0

NextContext ==
  \E c \in Calls, m \in Merch, q \in Quantities \ {0} : CallSafeAddLines(c, m, q)

SpecContext == InitContext /\ [][NextContext]_vars

\* The gateway finishes every request it took, and every timer of
\* waitForMutationComplete fires: a call whose wait can end does go on.
Fairness ==
  /\ WF_vars(GatewayComplete)
  /\ \A c \in Calls :
       /\ WF_vars(Classify(c))
       /\ WF_vars(RecoveryReplay(c))
       /\ WF_vars(RecoveryFinish(c))
       /\ WF_vars(ForceFinish(c))
       /\ WF_vars(AddMultipleThenAdd(c))

SpecLive == Init /\ [][Next]_vars /\ Fairness

\* The same program against a gateway that may misbehave once more.
InitExtraFault == Start(MaxFaults + 1)

SpecExtraFault == InitExtraFault /\ [][Next]_vars

\* ================================================================ claims
IsResult(r) == r # None /\ r # Thrown

Passed(c) == pc[c] \in {"wait", "waitCreate", "waitReplay"}

Codes(r) == {r.errors[i].code : i \in DOMAIN r.errors}

Count(c, kinds) == Cardinality({i \in DOMAIN log[c] : log[c][i].kind \in kinds})


\* The step with which the caller-facing operation on slot c enters executeSafeMutation.
Enters(c) == CanStart(c) /\ started' = started + 1 /\ op'[c] # None

\* C1: at most one orchestrated mutation is past the single-flight guard and not yet
\* resolved to its caller, the whole of performRecovery included.
C1_SingleFlight == Cardinality({c \in Calls : Passed(c)}) <= 1

\* C2: every orchestrated call resolves with a SafeCartMutationResult; none rejects
\* with an exception, whatever the gateway does.
C2_NeverRejects == \A c \in Calls : result[c] # Thrown

\* C3: a call made while another orchestrated mutation is pending (past the guard
\* and not yet resolved) returns at once a failure whose only error is
\* UNKNOWN_ERROR, sends nothing to the gateway, and leaves the cart, the flag,
\* lastErrors, isRecovering and the stored context as they were; nothing of it runs
\* later.
C3_RejectedCall ==
  [][\A c \in Calls :
       (Enters(c) /\ \E d \in Calls \ {c} : Passed(d)) =>
         /\ pc'[c] = "done"
         /\ result'[c].success = FALSE
         /\ Len(result'[c].errors) = 1
         /\ result'[c].errors[1].code = "UNKNOWN_ERROR"
         /\ log'[c] = <<>>
         /\ UNCHANGED <<gw, pending, mutationInProgressRef, lastErrors, isRecovering,
                        stored, preOpCartStateRef>>]_vars

\* C4: within one call cart creation is requested at most once and the mutation
\* closure is invoked at most twice (the first attempt and one replay).
C4_BoundedRecovery ==
  \A c \in Calls : Count(c, {"create"}) <= 1 /\ Count(c, Mutations) <= 2

C4_Witness ==
  \E c \in Calls :
    pc[c] = "done" /\ Count(c, {"create"}) = 1 /\ Count(c, Mutations) = 2

\* The gateway requests of call c: a first attempt, a creation that made a cart,
\* and the replay.
Recovered(c) ==
  /\ Len(log[c]) = 3
  /\ log[c][1].kind \in Mutations
  /\ log[c][2].kind = "create" /\ log[c][2].outcome = "applied"
  /\ log[c][3].kind \in Mutations

Returned(c) == pc[c] = "done" /\ op[c] # None /\ IsResult(result[c])

\* C5: when the replay after a successful cart creation still reports errors, the
\* caller receives a failure whose errors all have code RECOVERY_FAILED.
C5_ReplayErrorsAreRecoveryFailed ==
  \A c \in Calls :
    (Returned(c) /\ \E i \in DOMAIN log[c] :
                      /\ i > 1 /\ log[c][i - 1].kind = "create"
                      /\ log[c][i - 1].outcome = "applied"
                      /\ log[c][i].outcome = "userErrors")
      => result[c].success = FALSE /\ Codes(result[c]) = {"RECOVERY_FAILED"}

\* C6: with auto-recovery on, when the gateway ignores the first add of a call and
\* applies everything the call sends after it, the second add included, the call
\* makes one creation and one replay and returns success with wasRecovered and the
\* id of the cart its creation made.
C6_RecoveryScenario ==
  \A c \in Calls :
    (/\ autoRecover /\ pc[c] = "done" /\ op[c] # None /\ op[c].type = "add"
     /\ Len(log[c]) >= 2 /\ log[c][1].kind = "add" /\ log[c][1].outcome = "ignored"
     /\ log[c][Len(log[c])].kind = "add"
     /\ \A i \in DOMAIN log[c] : i > 1 => log[c][i].outcome = "applied")
      => /\ Recovered(c)
         /\ IsResult(result[c])
         /\ result[c].success /\ result[c].wasRecovered
         /\ result[c].newCartId = log[c][2].made

\* A call that found a stored context differing from the current one and was let
\* through the guard, with auto-recovery on.
Mismatched(c) ==
  /\ ui[c] # None /\ op[c] # None
  /\ ui[c].mismatch /\ ~ui[c].busy /\ autoRecover

\* C7: on a context mismatch with auto-recovery on, cart creation is requested
\* before the closure is first invoked, and the closure never goes to the old cart.
C7_CreationBeforeClosure ==
  \A c \in Calls :
    Mismatched(c) =>
      \A i \in DOMAIN log[c] :
        log[c][i].kind \in Mutations =>
          /\ i > 1 /\ log[c][1].kind = "create"
          /\ log[c][i].cart # ui[c].cart

C7_Witness ==
  \E c \in Calls :
    /\ Mismatched(c) /\ pc[c] = "done" /\ ui[c].cart # 0
    /\ Len(log[c]) = 2 /\ log[c][2].kind \in Mutations

Merchandise(lines) == {lines[i].merchandise : i \in DOMAIN lines}

\* The gateway did with every request of call c what a correct service does.
Served(c) == \A i \in DOMAIN log[c] : log[c][i].outcome \in {"applied", "invalid"}

\* C8: after a context-mismatch recovery, served by a gateway that misbehaves in
\* nothing, the cart handed back holds none of the old cart's lines, and after
\* addToCart it holds the requested merchandise.
C8_OnlyReplayedOperation ==
  \A c \in Calls :
    (/\ Mismatched(c) /\ Returned(c) /\ Served(c)
     /\ result[c].success /\ result[c].wasRecovered)
      => /\ \A i \in DOMAIN result[c].cart.lines :
              result[c].cart.lines[i].id \notin ui[c].lineIds
         /\ ui[c].name = "addToCart"
              => ui[c].merchandiseId \in Merchandise(result[c].cart.lines)

\* C9: every linesUpdate or linesRemove sent to the gateway, replays included,
\* carries only line ids of the cart that is current when it is sent.
C9_NoStaleLineIds ==
  \A c \in Calls : \A i \in DOMAIN log[c] :
    log[c][i].kind \in {"update", "remove"} => log[c][i].fresh

\* the userErrors the gateway reported for the i-th request of call c
Reported(c, i) == UserErrorList(log[c][i].reported)

CarriesReported(errors, reported) ==
  /\ Len(errors) = Len(reported)
  /\ \A k \in DOMAIN errors :
       /\ errors[k].code = "USER_ERROR"
       /\ errors[k].message = reported[k].message
       /\ errors[k].originalError = reported[k]
       /\ errors[k].field = IF "field" \in DOMAIN reported[k]
                            THEN [text |-> Join(reported[k].field)] ELSE None

NoOpSeen(c) ==
  /\ pc[c] = "wait" /\ Idle
  /\ checkForUserErrors = <<>>
  /\ getCurrentCart # None /\ preOpCartStateRef # None
  /\ gw.updatedAt = preOpCartStateRef.updatedAt
  /\ op[c].expected # None
  /\ TotalQuantity - preOpCartStateRef.totalQuantity
       # (IF op[c].type = "add" THEN op[c].expected.n ELSE 0 - op[c].expected.n)

NoOpErrors(errors) ==
  /\ Len(errors) = 2
  /\ {errors[i].code : i \in DOMAIN errors} = {"NO_OP_MUTATION", "STALE_CART"}

\* C11: a mutation that leaves updatedAt unchanged and totalQuantity off the expected
\* delta is classified as failed with a NO_OP_MUTATION error and a STALE_CART error
\* naming the cart id; with auto-recovery off that failure is returned; with
\* auto-recovery on and a creation and a replay that the gateway applies, the call
\* returns success with wasRecovered.
C11_NoOpClassified ==
  /\ [][\A c \in Calls :
         (NoOpSeen(c) /\ pc'[c] # pc[c]) =>
           LET errors == IF autoRecover THEN origErrors'[c] ELSE result'[c].errors
           IN /\ NoOpErrors(errors)
              /\ \E i \in DOMAIN errors :
                   errors[i].code = "STALE_CART" /\ errors[i].ref = gw.id
              /\ ~autoRecover => pc'[c] = "done" /\ result'[c].success = FALSE]_vars
  /\ [](\A c \in Calls :
         (/\ autoRecover /\ pc[c] = "done" /\ op[c] # None
          /\ NoOpErrors(origErrors[c])
          /\ Recovered(c) /\ log[c][3].outcome = "applied")
           => IsResult(result[c]) /\ result[c].success /\ result[c].wasRecovered)

\* Call c, which went to safeAddLines once, hands its result to the caller.
AddReturns(c) ==
  /\ pc[c] # "done" /\ pc'[c] = "done"
  /\ ui'[c].name \in {"addToCart", "safeAddLines"}
  /\ op'[c] # None /\ op'[c].type = "add"
  /\ IsResult(result'[c])

\* C12: whenever safeAddLines returns success, the cart's totalQuantity is what it
\* was before the call plus the sum of the requested quantities, and updatedAt is
\* later than it was before the call.
C12_SuccessfulAddAddsUp ==
  [][\A c \in Calls :
       (AddReturns(c) /\ result'[c].success) =>
         /\ TotalQuantity' = ui'[c].totalQuantity + SumQty(op'[c].payload)
         /\ gw'.updatedAt > ui'[c].updatedAt]_vars

\* C13: every result handed to a caller, by the hook or by the provider, has
\* success exactly when its errors list is empty.
C13_SuccessIffNoErrors ==
  \A c \in Calls :
    (pc[c] = "done" /\ IsResult(result[c]))
      => (result[c].success <=> result[c].errors = <<>>)

C13_Witness ==
  \E c \in Calls, d \in Calls :
    /\ pc[c] = "done" /\ pc[d] = "done"
    /\ IsResult(result[c]) /\ IsResult(result[d])
    /\ ui[c].name = "addMultipleToCart" /\ result[c].success
    /\ ui[d].name = "forceCreateNewCart" /\ ~result[d].success
    /\ result[d].errors # <<>>

\* The step with which call c learns that the creation of its recovery failed: the
\* cartCreate threw, or the wait ended without a cart that has an id.
CreationFails(c) ==
  \/ /\ pc[c] = "waitCreate" /\ pc'[c] # pc[c]
     /\ log[c][Len(log[c])].outcome = "failed"
  \/ /\ pc'[c] = "done" /\ pc[c] # "done" /\ op'[c] # None /\ log'[c] # <<>>
     /\ log'[c][Len(log'[c])].kind = "create"
     /\ log'[c][Len(log'[c])].outcome = "threw"

\* C14: when the creation of a recovery fails, the call returns a failure whose only
\* error is RECOVERY_FAILED wrapping the original errors; the closure is not
\* replayed, creation is not tried again, and the stored context stays cleared.
C14_CreationFailure ==
  [][\A c \in Calls :
       CreationFails(c) =>
         /\ pc'[c] = "done"
         /\ result'[c] = buildFailureResult(<<createRecoveryFailedError(origErrors'[c])>>)
         /\ origErrors'[c] # <<>>
         /\ log'[c][Len(log'[c])].kind = "create"
         /\ Count(c, {"create"})' = 1
         /\ stored' = None]_vars

\* The step with which a call of executeSafeMutation that passed the guard hands
\* its result to the caller.
Resolves(c) ==
  /\ pc'[c] = "done" /\ (pc[c] # "done" \/ started' # started)
  /\ op'[c] # None /\ ~ui'[c].busy
  /\ IsResult(result'[c])

\* C15: when a call that passed the single-flight guard returns, lastErrors holds
\* the errors of the returned result: none on success, the returned errors on every
\* failure, those of the recovery path included.
C15_LastErrorsAreReturned ==
  [][\A c \in Calls : Resolves(c) => lastErrors' = result'[c].errors]_vars

\* a recovery is in progress: between the entry of performRecovery or
\* forceCreateNewCart and its return
InRecovery(c) == pc[c] \in {"waitCreate", "waitReplay", "waitForce"}

\* C16: isRecovering is true exactly while some recovery is in progress, in every
\* interleaving of orchestrated mutations and forceCreateNewCart calls.
C16_IsRecoveringTracksRecovery ==
  isRecovering <=> \E c \in Calls : InRecovery(c)

\* Call c, made with auto-recovery off, resumes after its wait and is classified as
\* failed: the cart carries userErrors, or the mutation is detected as a no-op.
FailsUnrecovered(c) ==
  /\ ~autoRecover
  /\ pc[c] = "wait" /\ pc'[c] # pc[c]
  /\ \/ checkForUserErrors # <<>>
     \/ detectNoOpMutation(preOpCartStateRef, getCurrentCart, op[c].type, op[c].expected)

\* C17: with auto-recovery off, a mutation classified as failed returns a failure
\* with the errors of the classification and records them in lastErrors; it
\* requests no creation and no replay and leaves the cart, the stored context and
\* isRecovering as they were.
C17_FailureWithoutRecovery ==
  [][\A c \in Calls :
       FailsUnrecovered(c) =>
         LET errors == IF checkForUserErrors # <<>>
                       THEN extractUserErrors(checkForUserErrors)
                       ELSE <<createStaleCartError(gw.id), createNoOpError>>
         IN /\ pc'[c] = "done"
            /\ result'[c] = buildFailureResult(errors)
            /\ lastErrors' = errors
            /\ UNCHANGED <<log, gw, pending, stored, isRecovering, callbacks>>]_vars

C17_Witness ==
  \E c \in Calls :
    /\ ~autoRecover /\ Returned(c) /\ stored # None
    /\ Len(log[c]) = 1 /\ log[c][1].outcome = "ignored"
    /\ Codes(result[c]) = {"NO_OP_MUTATION", "STALE_CART"}
    /\ lastErrors = result[c].errors /\ ~isRecovering

\* C18: with auto-recovery off, a call that finds a stored context differing from
\* the current one returns a failure whose only error is CONTEXT_MISMATCH naming
\* the stored and the current context; it sends nothing to the gateway, neither
\* the mutation nor a creation, and leaves the stored context as it was.
C18_MismatchWithoutRecovery ==
  [][\A c \in Calls :
       (/\ Enters(c) /\ ~autoRecover /\ stored # None
        /\ <<stored.countryCode, stored.languageCode>> # <<countryCode, languageCode>>)
         => /\ pc'[c] = "done"
            /\ result'[c].success = FALSE
            /\ Len(result'[c].errors) = 1
            /\ result'[c].errors[1].code = "CONTEXT_MISMATCH"
            /\ result'[c].errors[1].detail
                 = <<stored.countryCode, stored.languageCode, countryCode, languageCode>>
            /\ log'[c] = <<>>
            /\ UNCHANGED <<stored, gw, pending>>]_vars

C18_Witness ==
  \E c \in Calls :
    /\ ~autoRecover /\ Returned(c) /\ ui[c].mismatch
    /\ Codes(result[c]) = {"CONTEXT_MISMATCH"}
    /\ log[c] = <<>> /\ stored # None /\ gw.id # 0

\* Call c has returned, nothing ran beside it or before it on another slot, and the
\* gateway applied every request it sent.
AloneAndApplied(c) ==
  /\ Returned(c)
  /\ \A d \in Calls \ {c} : pc[d] = "idle"
  /\ \A i \in DOMAIN log[c] : log[c][i].outcome = "applied"

NoRecovery(c) ==
  /\ Len(log[c]) = 1 /\ log[c][1].kind \in Mutations
  /\ result[c].success /\ ~result[c].wasRecovered
  /\ callbacks[c] = <<>> /\ ~isRecovering

\* The three steps of the scenario, each from the cart the step before leaves:
\* addToCart on a cart without lines makes one line of the requested quantity;
\* addToCart of merchandise that has a line raises that line, under the same id, by
\* the requested quantity and adds no line; updateQuantity(thatLineId, 0) on the
\* cart's only line leaves no lines and totalQuantity 0; none recovers.
ScenarioStep(c) ==
  /\ (ui[c].name = "addToCart" /\ ui[c].lines = <<>>)
       => /\ Len(gw.lines) = 1
          /\ gw.lines[1].merchandise = ui[c].merchandiseId
          /\ gw.lines[1].quantity = ui[c].quantity
          /\ TotalQuantity = ui[c].quantity
          /\ NoRecovery(c)
  /\ (/\ ui[c].name = "addToCart" /\ Len(ui[c].lines) = 1
      /\ ui[c].lines[1].merchandise = ui[c].merchandiseId)
       => /\ Len(gw.lines) = 1
          /\ gw.lines[1].id = ui[c].lines[1].id
          /\ gw.lines[1].quantity = ui[c].lines[1].quantity + ui[c].quantity
          /\ NoRecovery(c)
  /\ (/\ ui[c].name = "updateQuantity" /\ ui[c].quantity = 0
      /\ Len(ui[c].lines) = 1 /\ ui[c].lines[1].id = ui[c].lineId)
       => /\ gw.lines = <<>> /\ TotalQuantity = 0
          /\ NoRecovery(c)

LinesOf(merchandiseId) ==
  {i \in DOMAIN gw.lines : gw.lines[i].merchandise = merchandiseId}

\* C20: addToCart with a merchandise id and a positive quantity enters
\* executeSafeMutation once: with an update of the line that holds the merchandise
\* to its quantity plus the requested one when there is such a line, and with an
\* add of the merchandise and quantity otherwise, never with both; and no cart
\* holds two lines of the same merchandise.
C20_AddToCartDispatch ==
  /\ [][\A c \in Calls :
         (/\ CanStart(c) /\ started' = started + 1 /\ ui'[c].name = "addToCart"
          /\ ui'[c].merchandiseId # NoMerch /\ ui'[c].quantity > 0)
           => /\ op'[c] # None
              /\ Len(op'[c].payload) = 1
              /\ Len(log'[c]) <= 1
              /\ \A i \in DOMAIN log'[c] : log'[c][i].kind \in {op'[c].type, "create"}
              /\ IF LinesOf(ui'[c].merchandiseId) # {}
                 THEN LET k == CHOOSE i \in LinesOf(ui'[c].merchandiseId) :
                                 \A j \in LinesOf(ui'[c].merchandiseId) : i <= j
                      IN /\ op'[c].type = "update"
                         /\ op'[c].payload[1]
                              = [id |-> gw.lines[k].id,
                                 quantity |-> gw.lines[k].quantity + ui'[c].quantity]
                 ELSE /\ op'[c].type = "add"
                      /\ op'[c].payload[1]
                           = [merchandiseId |-> ui'[c].merchandiseId,
                              quantity |-> ui'[c].quantity]]_vars
  /\ [](\A m \in Merch : Cardinality(LinesOf(m)) <= 1)

C20_Witness ==
  \E c \in Calls :
    /\ Returned(c) /\ ui[c].name = "addToCart" /\ ui[c].quantity = MaxQty
    /\ op[c].type = "update" /\ log[c] # <<>> /\ log[c][1].kind = "update"
    /\ log[c][1].outcome = "applied"
    /\ \E i \in DOMAIN gw.lines :
         /\ gw.lines[i].merchandise = ui[c].merchandiseId
         /\ gw.lines[i].quantity = MaxQty + 1

\* C21: addToCart with a quantity of zero or less, or with an empty merchandise
\* reference, returns a failure whose only error is UNKNOWN_ERROR; it does not
\* enter executeSafeMutation, sends nothing to the gateway, and leaves the
\* in-flight flag, lastErrors, the stored context and the cart as they were.
C21_InvalidAddToCart ==
  [][\A c \in Calls :
       (/\ CanStart(c) /\ started' = started + 1 /\ ui'[c].name = "addToCart"
        /\ (ui'[c].merchandiseId = NoMerch \/ ui'[c].quantity <= 0))
         => /\ pc'[c] = "done"
            /\ result'[c].success = FALSE
            /\ Len(result'[c].errors) = 1
            /\ result'[c].errors[1].code = "UNKNOWN_ERROR"
            /\ op'[c] = None /\ log'[c] = <<>>
            /\ UNCHANGED <<mutationInProgressRef, lastErrors, stored, gw, pending,
                           isRecovering, preOpCartStateRef>>]_vars

C21_Witness ==
  \E c \in Calls :
    /\ pc[c] = "done" /\ ui[c].name = "addToCart" /\ op[c] = None
    /\ ui[c].merchandiseId # NoMerch /\ ui[c].quantity = 0
    /\ lastErrors # <<>> /\ gw.lines # <<>>
    /\ Codes(result[c]) = {"UNKNOWN_ERROR"}

\* C22: updateQuantity with a line id enters executeSafeMutation with a remove of
\* exactly that line when the quantity is zero or less, and with an update of that
\* line to the quantity otherwise; with an empty line id it returns a failure whose
\* only error is UNKNOWN_ERROR and sends nothing to the gateway.
C22_UpdateQuantityDispatch ==
  [][\A c \in Calls :
       (CanStart(c) /\ started' = started + 1 /\ ui'[c].name = "updateQuantity")
         => IF ui'[c].lineId = NoLineId
            THEN /\ pc'[c] = "done" /\ op'[c] = None
                 /\ result'[c].success = FALSE
                 /\ Len(result'[c].errors) = 1
                 /\ result'[c].errors[1].code = "UNKNOWN_ERROR"
                 /\ log'[c] = <<>>
                 /\ UNCHANGED <<gw, pending>>
            ELSE IF ui'[c].quantity <= 0
            THEN /\ op'[c] # None /\ op'[c].type = "remove"
                 /\ op'[c].payload = <<ui'[c].lineId>>
            ELSE /\ op'[c] # None /\ op'[c].type = "update"
                 /\ op'[c].payload = <<[id |-> ui'[c].lineId,
                                        quantity |-> ui'[c].quantity]>>]_vars

C22_Witness ==
  \E c \in Calls, d \in Calls :
    /\ pc[c] = "done" /\ ui[c].name = "updateQuantity"
    /\ ui[c].lineId = NoLineId /\ Codes(result[c]) = {"UNKNOWN_ERROR"}
    /\ pc[d] = "done" /\ ui[d].name = "updateQuantity" /\ ui[d].quantity = 0
    /\ op[d] # None /\ log[d] # <<>>
    /\ log[d][1].kind = "remove" /\ log[d][1].outcome = "applied"

\* Call c asked to remove a line: updateQuantity(lineId, 0) or removeFromCart(lineId).
Removes(c) ==
  /\ pc[c] = "done" /\ op[c] # None
  /\ \/ ui[c].name = "removeFromCart"
     \/ ui[c].name = "updateQuantity" /\ ui[c].quantity <= 0

\* C23: updateQuantity(lineId, 0) and removeFromCart(lineId) both remove the line
\* when the gateway applies the request; repeated on a line that is no longer in
\* the cart, either resolves with a result and never throws.
C23_RemoveIsRepeatable ==
  \A c \in Calls :
    Removes(c) =>
      /\ (/\ ui[c].lineId \in ui[c].lineIds /\ IsResult(result[c])
          /\ \A d \in Calls \ {c} : pc[d] = "idle"
          /\ \A i \in DOMAIN log[c] : log[c][i].outcome = "applied")
           => ui[c].lineId \notin LineIds
      /\ ui[c].lineId \notin ui[c].lineIds
           => /\ IsResult(result[c])
              /\ result[c].success \/ result[c].errors # <<>>

\* the items whose merchandise has a line in the current cart, and the others
WithLine(items) == SelectSeq(items, LAMBDA it : LinesOf(it.merchandiseId) # {})

WithoutLine(items) == SelectSeq(items, LAMBDA it : LinesOf(it.merchandiseId) = {})

\* C24: addMultipleToCart splits its items into updates (merchandise with a line)
\* and adds (new merchandise); it sends the updates first, and the adds only after
\* the update call has returned success; when the update call fails, its result is
\* returned and the adds are never sent.
C24_UpdatesThenAdds ==
  [][\A c \in Calls :
       /\ (/\ CanStart(c) /\ started' = started + 1
           /\ ui'[c].name = "addMultipleToCart" /\ ui'[c].items # <<>>)
            => /\ op'[c] # None
               /\ ui'[c].newItems = WithoutLine(ui'[c].items)
               /\ IF WithLine(ui'[c].items) # <<>>
                  THEN /\ op'[c].type = "update"
                       /\ Len(op'[c].payload) = Len(WithLine(ui'[c].items))
                       /\ \A i \in DOMAIN op'[c].payload :
                            \E k \in LinesOf(WithLine(ui'[c].items)[i].merchandiseId) :
                              op'[c].payload[i]
                                = [id |-> gw.lines[k].id,
                                   quantity |-> gw.lines[k].quantity
                                                  + WithLine(ui'[c].items)[i].quantity]
                  ELSE /\ op'[c].type = "add"
                       /\ op'[c].payload = ui'[c].items
       /\ (pc[c] # "updated" /\ pc'[c] = "updated")
            => /\ pending = None /\ log[c] # <<>>
               /\ log[c][Len(log[c])].kind = "update"
               /\ checkForUserErrors = <<>> /\ getCurrentCart # None
               /\ ui[c].newItems # <<>>
       /\ (/\ ui[c] # None /\ ui[c].name = "addMultipleToCart"
           /\ op[c] # None /\ op[c].type = "update"
           /\ op'[c] # None /\ op'[c].type = "add" /\ started' = started)
            => /\ pc[c] = "updated"
               /\ op'[c].payload = ui[c].newItems
       /\ (/\ pc[c] # "done" /\ pc'[c] = "done" /\ ui'[c].name = "addMultipleToCart"
           /\ op'[c] # None /\ op'[c].type = "update" /\ IsResult(result'[c])
           /\ ~result'[c].success)
            => result'[c].errors # <<>> /\ result'[c].cart = None]_vars

C24_Witness ==
  \E c \in Calls :
    /\ Returned(c) /\ ui[c].name = "addMultipleToCart" /\ Len(ui[c].items) = 2
    /\ Len(ui[c].newItems) = 1
    /\ op[c].type = "add" /\ result[c].success
    /\ Len(gw.lines) = 2 /\ gw.lines[1].quantity = 2 /\ gw.lines[2].quantity = 1

\* Call c returns from forceCreateNewCart in this step.
ForceReturns(c) ==
  /\ pc[c] # "done" /\ pc'[c] = "done"
  /\ ui'[c] # None /\ ui'[c].name = "forceCreateNewCart"

\* C25: forceCreateNewCart asks for exactly one cart creation and sends no add,
\* update or remove; when it succeeds it returns success=true, wasRecovered=true and
\* the id of the cart that creation made, and the stored context is the current
\* (countryCode, languageCode); when it fails it returns the single error
\* RECOVERY_FAILED, lastErrors holds that error and the stored context is cleared.
C25_ForceCreatesOneCart ==
  [][\A c \in Calls :
       ForceReturns(c) =>
         /\ Len(log'[c]) = 1 /\ log'[c][1].kind = "create"
         /\ IsResult(result'[c])
         /\ IF result'[c].success
            THEN /\ result'[c].wasRecovered
                 /\ log'[c][1].made # 0
                 /\ result'[c].newCartId = log'[c][1].made
                 /\ result'[c].cart # None /\ result'[c].cart.id = log'[c][1].made
                 /\ stored' # None
                 /\ <<stored'.countryCode, stored'.languageCode>>
                      = <<countryCode', languageCode'>>
            ELSE /\ Codes(result'[c]) = {"RECOVERY_FAILED"} /\ Len(result'[c].errors) = 1
                 /\ lastErrors' = result'[c].errors
                 /\ stored' = None]_vars

\* A step of no call and not of the gateway: it starts nothing, ends no wait and
\* completes no request.
NoCallMoves == pc' = pc /\ started' = started /\ pending' = pending

\* C26: clearErrors empties lastErrors and changes nothing else: the cart and its
\* lines, isRecovering, the in-flight flag and the stored context stay as they
\* were, also while a mutation or a recovery is in flight.
C26_ClearErrorsOnly ==
  [][NoCallMoves =>
       /\ lastErrors' = <<>>
       /\ UNCHANGED <<gw, stored, isRecovering, mutationInProgressRef,
                      preOpCartStateRef, countryCode, languageCode, autoRecover,
                      op, ui, result, log, origErrors, newCartIdOf, callbacks>>]_vars

\* lastErrors emptied while a mutation or its recovery waits: the other call was a
\* forceCreateNewCart that failed, which leaves its error in lastErrors.
C26_Witness ==
  \E c, d \in Calls :
    /\ Passed(c) /\ ui[c].name # "addMultipleToCart"
    /\ pc[d] = "done" /\ ui[d].name = "forceCreateNewCart"
    /\ IsResult(result[d]) /\ ~result[d].success
    /\ lastErrors = <<>>

\* A request to change lines is handed to the gateway in this step.
Dispatches ==
  /\ pending = None /\ pending' # None
  /\ pending'.kind \in Mutations

\* C27: every add, update or remove the storefront hands to the gateway comes from
\* an executeSafeMutation call that holds the single-flight flag; no hook calls the
\* gateway's linesAdd, linesUpdate or linesRemove itself.
C27_OnlyThroughOrchestrator ==
  [][Dispatches =>
       /\ pending'.call \in Calls
       /\ op'[pending'.call] # None
       /\ op'[pending'.call].type = pending'.kind
       /\ mutationInProgressRef']_vars

\* The replay of call c has ended its wait with no userErrors, the updatedAt of
\* before the replay, and a change of totalQuantity other than the expected one.
ReplayChangedNothing(c) ==
  /\ pc[c] = "waitReplay" /\ Idle
  /\ checkForUserErrors = <<>>
  /\ getCurrentCart # None /\ preOpCartStateRef # None
  /\ getCurrentCart.updatedAt = preOpCartStateRef.updatedAt
  /\ op[c].expected # None
  /\ \/ /\ op[c].type = "add"
        /\ getCurrentCart.totalQuantity - preOpCartStateRef.totalQuantity
             # op[c].expected.n
     \/ /\ op[c].type = "remove"
        /\ preOpCartStateRef.totalQuantity - getCurrentCart.totalQuantity
             # op[c].expected.n

\* C28: the replay inside performRecovery is classified like a first attempt: a
\* replay that reports no userErrors but leaves updatedAt unchanged, with a change of
\* totalQuantity other than the expected one, makes performRecovery return a
\* failure, not a success with wasRecovered=true.
C28_ReplayClassified ==
  [][\A c \in Calls :
       (ReplayChangedNothing(c) /\ pc'[c] # pc[c])
         => IsResult(result'[c]) /\ ~result'[c].success]_vars

\* C29: executeSafeMutation and performRecovery go on after a wait, to read the
\* userErrors and the cart and to classify, only when the gateway has finished the
\* request they sent: its status is idle (or uninitialized) and nothing is pending.
C29_ClassifiesAfterIdle ==
  [][\A c \in Calls :
       (Passed(c) /\ pc'[c] # pc[c]) => Idle /\ pending = None]_vars

\* C30: while an orchestrated mutation or its recovery is in progress, no other
\* operation (another mutation, or forceCreateNewCart) clears or writes the stored
\* context, hands a request to the gateway, or writes the in-flight flag.
C30_OneWriterAtATime ==
  [][\A c \in Calls :
       (Passed(c) /\ pc'[c] = pc[c])
         => /\ stored' = stored
            /\ mutationInProgressRef' = mutationInProgressRef
            /\ \A d \in Calls \ {c} : Len(log'[d]) <= Len(log[d])]_vars

\* Call c is at the end of the wait of a first attempt that got no userErrors.
Classifies(c) == pc[c] = "wait" /\ Idle /\ checkForUserErrors = <<>>

\* Call c returns a silent no-op in this step.
ReturnsNoOp(c) ==
  /\ pc'[c] = "done" /\ IsResult(result'[c])
  /\ "NO_OP_MUTATION" \in Codes(result'[c])

\* the change of totalQuantity in the direction the mutation of call c should make
ActualChange(c) ==
  IF op[c].type = "remove"
  THEN preOpCartStateRef.totalQuantity - getCurrentCart.totalQuantity
  ELSE getCurrentCart.totalQuantity - preOpCartStateRef.totalQuantity

\* C31: detectNoOpMutation answers false (the mutation counts as done) when either
\* snapshot is absent, when updatedAt changed, and also when updatedAt is unchanged
\* but an add or remove changed totalQuantity by exactly the expected amount.
C31_SuccessWithoutMismatch ==
  [][\A c \in Calls :
       (/\ Classifies(c) /\ pc'[c] # pc[c]
        /\ \/ preOpCartStateRef = None
           \/ getCurrentCart = None
           \/ getCurrentCart.updatedAt # preOpCartStateRef.updatedAt
           \/ /\ op[c].type \in {"add", "remove"} /\ op[c].expected # None
              /\ ActualChange(c) = op[c].expected.n)
         => ~ReturnsNoOp(c)]_vars

\* C32: for an update the verdict hangs on the timestamp alone: detectNoOpMutation
\* answers true exactly when both snapshots exist and updatedAt is unchanged,
\* whatever totalQuantity was before and after and whatever change was expected.
C32_UpdateByTimestampOnly ==
  [][\A c \in Calls :
       (Classifies(c) /\ pc'[c] # pc[c] /\ op[c].type = "update")
         => (ReturnsNoOp(c)
               <=> /\ preOpCartStateRef # None /\ getCurrentCart # None
                   /\ getCurrentCart.updatedAt = preOpCartStateRef.updatedAt)]_vars

\* an update held to be a no-op although totalQuantity changed by what was expected
C32_Witness ==
  \E c \in Calls :
    /\ pc[c] = "done" /\ op[c] # None /\ op[c].type = "update"
    /\ IsResult(result[c]) /\ "NO_OP_MUTATION" \in Codes(result[c])
    /\ op[c].expected # None /\ op[c].expected.n > 0
    /\ preOpCartStateRef # None
    /\ TotalQuantity - preOpCartStateRef.totalQuantity = op[c].expected.n

\* Call c is an orchestrated mutation that has not entered performRecovery.
OutsideRecovery(c) == op[c] # None /\ origErrors[c] = <<>>

\* C33: an orchestrated mutation that does not enter recovery never asks for a cart
\* creation: cartCreate is called only by createFreshCart, from performRecovery or
\* forceCreateNewCart, never by safeAddLines, safeUpdateLines or safeRemoveLines on
\* their normal path.
C33_CreationOnlyInRecovery ==
  \A c \in Calls :
    /\ OutsideRecovery(c) => Count(c, {"create"}) = 0
    /\ Count(c, {"create"}) > 0
         => \/ op[c] = None /\ ui[c].name = "forceCreateNewCart"
            \/ op[c] # None /\ origErrors[c] # <<>>

\* a mutation done on the normal path, on a storefront that had no cart
C33_Witness ==
  \E c \in Calls :
    /\ Returned(c) /\ OutsideRecovery(c) /\ result[c].success
    /\ ui[c].cart = 0
    /\ Len(log[c]) = 1 /\ log[c][1].kind = "add" /\ log[c][1].outcome = "applied"

\* What call c hands to the gateway in this step, if anything: the kind of a
\* request that enters its log.
Asks(c, kinds) ==
  /\ log'[c] # <<>> /\ log'[c] # log[c]
  /\ Len(log'[c]) = Len(LogOf(c)) + 1
  /\ log'[c][Len(log'[c])].kind \in kinds

StoredIsCurrent ==
  /\ stored # None
  /\ stored.countryCode = countryCode /\ stored.languageCode = languageCode

\* C34: the stored context is read before every orchestrated mutation (a first
\* attempt is dispatched only when the check passes), it is cleared by the step
\* that asks for a cart creation, and it holds the current countryCode and
\* languageCode when the replay is dispatched; so once a recovery or a
\* forceCreateNewCart has succeeded, a mutation under the same current context
\* passes the context check.
C34_ContextLifecycle ==
  /\ [][\A c \in Calls :
          /\ (Asks(c, Mutations) /\ Len(log'[c]) = 1)
               => isContextMatch(countryCode, languageCode)
          /\ Asks(c, {"create"}) => stored' = None
          /\ (Asks(c, Mutations) /\ Len(log'[c]) > 1) => StoredIsCurrent']_vars
  /\ [](\A c \in Calls :
          (pc[c] = "done" /\ IsResult(result[c]) /\ result[c].success
             /\ result[c].wasRecovered)
            => isContextMatch(countryCode, languageCode))

\* after a recovery from a context mismatch, a later mutation was dispatched on
\* the new cart as a first attempt
C34_Witness ==
  \E c, d \in Calls :
    /\ c # d
    /\ Returned(c) /\ result[c].success /\ result[c].wasRecovered /\ ui[c].mismatch
    /\ StoredIsCurrent
    /\ op[d] # None /\ ~ui[d].mismatch /\ ui[d].cart = result[c].newCartId
    /\ log[d] # <<>> /\ log[d][1].kind \in Mutations /\ log[d][1].outcome # "dropped"

\* Call c comes back with a context mismatch in this step.
ReturnsMismatch(c) ==
  /\ pc'[c] = "done" /\ IsResult(result'[c])
  /\ "CONTEXT_MISMATCH" \in Codes(result'[c])

\* C35: isContextMatch(country, language) is true when no context is stored (or
\* none can be read), true when the stored countryCode and languageCode both equal
\* the arguments, and false otherwise; the stored createdAt plays no part.
C35_MatchOnCountryAndLanguage ==
  [][\A c \in Calls :
       (Enters(c) /\ ~mutationInProgressRef)
         => (ReturnsMismatch(c)
               <=> /\ stored # None
                   /\ \/ stored.countryCode # countryCode
                      \/ stored.languageCode # languageCode)]_vars

\* a mismatch on the language alone, with a stored context of some age
C35_Witness ==
  \E c \in Calls :
    /\ pc[c] = "done" /\ IsResult(result[c]) /\ "CONTEXT_MISMATCH" \in Codes(result[c])
    /\ stored # None /\ stored.countryCode = countryCode
    /\ stored.languageCode # languageCode /\ stored.createdAt = 2

\* The first attempt of call c was answered with userErrors.
RejectedInline(c) ==
  /\ op[c] # None /\ log[c] # <<>>
  /\ log[c][1].kind \in Mutations /\ log[c][1].outcome = "userErrors"

\* C36: with autoRecover on, a mutation the gateway rejects with userErrors starts
\* exactly one recreate-and-replay: one cart creation is asked for, the cart it
\* makes takes the place of the old one, and the same mutation is replayed once,
\* on that cart.
C36_OneRecreateAndReplay ==
  \A c \in Calls :
    (autoRecover /\ RejectedInline(c) /\ pc[c] = "done")
      => /\ Len(log[c]) >= 2 /\ log[c][2].kind = "create"
         /\ Count(c, {"create"}) = 1 /\ Count(c, Mutations) <= 2
         /\ log[c][2].outcome = "applied"
              => /\ Len(log[c]) = 3
                 /\ log[c][3].kind = op[c].type
                 /\ log[c][3].cart = log[c][2].made
                 /\ log[c][3].outcome # "dropped"

\* C37: when the gateway finishes every request, every executeSafeMutation call
\* returns a result in the end, and the in-flight flag is false whenever no call
\* is between the guard and its return.
C37_CallsReturn ==
  /\ \A c \in Calls :
       Passed(c) ~> (pc[c] \in {"done", "updated"}
                      /\ (pc[c] = "done" => IsResult(result[c])))
  /\ []((\A c \in Calls : ~Passed(c)) => ~mutationInProgressRef)

\* C38: with autoRecover on, removeFromCart or updateQuantity(lineId, 0) for a line
\* that is not in the cart does not replace the cart: no cart creation is asked
\* for, and the cart id and the lines are after the call what they were before it.
\* (Stated for a call that no other call overlaps.)
C38_AbsentLineKeepsCart ==
  \A c \in Calls :
    (/\ autoRecover /\ Removes(c)
     /\ ui[c].cart # 0 /\ ui[c].lineId \notin ui[c].lineIds
     /\ \A d \in Calls \ {c} : pc[d] = "idle")
      => /\ Count(c, {"create"}) = 0
         /\ gw.id = ui[c].cart
         /\ gw.lines = ui[c].lines

\* The last call on slot c found a context mismatch on a cart that is still the
\* current one, and its recovery made no cart.
MismatchUnrecovered(c) ==
  /\ pc[c] = "done" /\ op[c] # None /\ ui[c].mismatch
  /\ ui[c].cart # 0 /\ gw.id = ui[c].cart
  /\ \A i \in DOMAIN log[c] :
       log[c][i].kind = "create" => log[c][i].outcome \in {"threw", "failed", "dropped"}
  /\ \A d \in Calls \ {c} : pc[d] = "idle"

\* C39: a detected context mismatch is not dropped: when the recovery it started
\* made no cart, the next mutation under the same current context is again
\* treated as a context mismatch, and its request is not sent to the old cart.
C39_MismatchPersists ==
  [][\A c \in Calls :
       (MismatchUnrecovered(c) /\ Enters(c))
         => /\ ui'[c].mismatch
            /\ ~(Asks(c, Mutations) /\ log'[c][1].cart = ui[c].cart)]_vars

\* Call c ran performRecovery and has ended; its result is the one performRecovery
\* returned.
RecoveryEnded(c) ==
  /\ pc[c] = "done" /\ op[c] # None /\ origErrors[c] # <<>>
  /\ ui[c].name # "addMultipleToCart"

\* C40: every recovery calls exactly one of onRecovery and onRecoveryFailed, once:
\* onRecovery only with a result of success=true and wasRecovered=true,
\* onRecoveryFailed only with a result of success=false; and a result with
\* wasRecovered=true has success=true and a newCartId.
C40_OneCallbackPerRecovery ==
  \A c \in Calls :
    /\ RecoveryEnded(c)
         => /\ Len(callbacks[c]) = 1
            /\ callbacks[c][1] = "onRecovery"
                 => /\ IsResult(result[c])
                    /\ result[c].success /\ result[c].wasRecovered
            /\ callbacks[c][1] = "onRecoveryFailed"
                 => IsResult(result[c]) /\ ~result[c].success
    /\ (pc[c] = "done" /\ IsResult(result[c]) /\ result[c].wasRecovered)
         => result[c].success /\ result[c].newCartId # 0

====
